---- MODULE Spec2Model ----
(***************************************************************************)
(* Model of athena's CMVN feature transform (transform/feats/cmvn.py) and  *)
(* of the training loop of main.py.                                        *)
(*                                                                         *)
(* Numbers are binary floating-point values with round-to-nearest-even,    *)
(* as numpy and tensorflow compute them.  A value is <<m, e>> and stands   *)
(* for m * 2^e, with m odd (or <<0, 0>> for zero) and |m| < 2^MantBits.    *)
(* The exponent range is unbounded: overflow to infinity and NaN are not   *)
(* modelled, and the inputs are chosen so that no division by zero and no  *)
(* square root of a negative number occurs.                                *)
(***************************************************************************)
EXTENDS Integers, Sequences, FiniteSets, TLC

\* ------------------------------------------------------------------ bounds
MantBits == 4       \* bits of the significand (24 in float32, 53 in float64)
MaxDim == 3         \* largest feature dimension / statistics length
MaxFrames == 3      \* largest number of frames of a feature
MaxEpochs == 3      \* largest num_epochs / sorta_epoch of a training run

\* ------------------------------------------------------- program constants
EpsDenominator == 1000000     \* the 1e-6 of cmvn.py, as 1 / 1000000

\* ------------------------------------------------------- floating point
Abs(n) == IF n < 0 THEN -n ELSE n

Sgn(n) == IF n < 0 THEN -1 ELSE 1

RECURSIVE BitLen(_)
BitLen(n) == IF n = 0 THEN 0 ELSE 1 + BitLen(n \div 2)

RECURSIVE Norm(_, _)
\* the canonical form of n * 2^e: the significand is odd, zero is <<0, 0>>
Norm(n, e) ==
    IF n = 0 THEN <<0, 0>>
    ELSE IF n % 2 = 0 THEN Norm(n \div 2, e + 1)
    ELSE <<n, e>>

\* n * 2^e rounded to MantBits significant bits, ties to even
RoundP(n, e) ==
    LET a == Abs(n)
        k == BitLen(a) - MantBits
    IN  IF k <= 0 THEN Norm(n, e)
        ELSE LET q == a \div (2 ^ k)
                 rem == a % (2 ^ k)
                 half == 2 ^ (k - 1)
                 up == rem > half \/ (rem = half /\ q % 2 = 1)
             IN  Norm(Sgn(n) * (IF up THEN q + 1 ELSE q), e + k)

F(n) == RoundP(n, 0)

\* the position of the leading bit of a non-zero value
Top(a) == a[2] + BitLen(Abs(a[1])) - 1

FAdd(a, b) ==
    IF a[1] = 0 THEN b
    ELSE IF b[1] = 0 THEN a
    ELSE IF Top(a) - Top(b) >= MantBits + 2 THEN a
    ELSE IF Top(b) - Top(a) >= MantBits + 2 THEN b
    ELSE LET e == IF a[2] < b[2] THEN a[2] ELSE b[2]
         IN  RoundP(a[1] * (2 ^ (a[2] - e)) + b[1] * (2 ^ (b[2] - e)), e)

FNeg(a) == <<-a[1], a[2]>>

FSub(a, b) == FAdd(a, FNeg(b))

FMul(a, b) == RoundP(a[1] * b[1], a[2] + b[2])

\* the correctly rounded quotient of the integers n and d (d > 0), times 2^e
RoundQuot(n, d, e) ==
    LET k == MantBits + 1 + BitLen(d)
        num == Abs(n) * (2 ^ k)
        q == num \div d
        sticky == IF num % d = 0 THEN 0 ELSE 1
    IN  RoundP(Sgn(n) * (2 * q + sticky), e - k - 1)

\* b is not zero
FDiv(a, b) ==
    IF a[1] = 0 THEN <<0, 0>>
    ELSE RoundQuot(Sgn(b[1]) * a[1], Abs(b[1]), a[2] - b[2])

RECURSIVE ISqrtUpTo(_, _)
\* the integer square root of n, one bit at a time from bit b downwards
ISqrtUpTo(n, b) ==
    IF b < 0 THEN 0
    ELSE LET r == ISqrtUpTo(n \div 4, b - 1)
             c == 2 * r + 1
         IN  IF c * c <= n THEN c ELSE 2 * r

ISqrt(n) == ISqrtUpTo(n, BitLen(n))

\* a is not negative
FSqrt(a) ==
    IF a[1] = 0 THEN <<0, 0>>
    ELSE LET j0 == 2 * MantBits + 2
             j == IF (a[2] - j0) % 2 = 0 THEN j0 ELSE j0 + 1
             n == a[1] * (2 ^ j)
             s == ISqrt(n)
             sticky == IF s * s = n THEN 0 ELSE 1
         IN  RoundP(2 * s + sticky, ((a[2] - j) \div 2) - 1)

\* the literal 1e-6
Eps == RoundQuot(1, EpsDenominator, 0)


\* ------------------------------------------------------------- tensors
\* A feature is a sequence of frames, each a sequence of values: shape
\* [T, D].  The result of an operation that can raise is a record: err is
\* "" and val the tensor, or err names the exception and val is <<>>.
Ok(x) == [err |-> "", val |-> x]

Raise(e) == [err |-> e, val |-> <<>>]

Rows(X) == Len(X)

Cols(X) == Len(X[1])

\* the element-wise operators of the global step
Arith(op, a, b) == IF op = "-" THEN FSub(a, b) ELSE FDiv(a, b)

\* X op v for a tensor X of shape [T, D] and a list v of length L, with the
\* tensor library's broadcasting: the last dimensions must be equal, or one
\* of them must be 1 (and is then stretched to the other).
Broadcast(op, X, v) ==
    LET D == Cols(X)
        L == Len(v)
    IN  IF D = L
        THEN Ok([t \in 1..Rows(X) |-> [d \in 1..D |-> Arith(op, X[t][d], v[d])]])
        ELSE IF L = 1
        THEN Ok([t \in 1..Rows(X) |-> [d \in 1..D |-> Arith(op, X[t][d], v[1])]])
        ELSE IF D = 1
        THEN Ok([t \in 1..Rows(X) |-> [d \in 1..L |-> Arith(op, X[t][1], v[d])]])
        ELSE Raise("InvalidArgumentError")

RECURSIVE ColSum(_, _, _)
\* the sum of column d over the first t frames, added in frame order
ColSum(X, d, t) == IF t = 0 THEN <<0, 0>> ELSE FAdd(ColSum(X, d, t - 1), X[t][d])

\* tf.reduce_mean(X, axis=0): the sum divided by the number of frames
reduce_mean(X) == [d \in 1..Cols(X) |-> FDiv(ColSum(X, d, Rows(X)), F(Rows(X)))]

\* tf.math.squared_difference(X, m), m broadcast over the frames
squared_difference(X, m) ==
    [t \in 1..Rows(X) |->
        [d \in 1..Cols(X) |-> FMul(FSub(X[t][d], m[d]), FSub(X[t][d], m[d]))]]

\* tf.compat.v1.nn.moments(X, axes=0): <<mean, variance>>
moments(X) ==
    LET mean == reduce_mean(X)
    IN  <<mean, reduce_mean(squared_difference(X, mean))>>

\* the divisor of the local step: sqrt(var) + 1e-6
LocalDivisor(var) == [d \in 1..Len(var) |-> FAdd(FSqrt(var[d]), Eps)]

\* (audio_feature - mean) / (sqrt(var) + 1e-6), mean and var over axis 0
LocalStep(X) ==
    LET mv == moments(X)
        div == LocalDivisor(mv[2])
    IN  [t \in 1..Rows(X) |->
            [d \in 1..Cols(X) |-> FDiv(FSub(X[t][d], mv[1][d]), div[d])]]

\* (audio_feature - mean) / variance, both lists broadcast against the tensor
GlobalStep(X, mean, variance) ==
    LET c == Broadcast("-", X, mean)
    IN  IF c.err # "" THEN c ELSE Broadcast("/", c.val, variance)

\* --------------------------------------------------------------- HParams
\* A config is None, or a dict giving some of the keys.  A key that is not
\* given holds its default in the record, so that equal configs are equal.
KnownKeys == {"type", "global_mean", "global_variance", "local_cmvn"}

DefaultHParams ==
    [err |-> "", global_mean |-> <<F(0)>>, global_variance |-> <<F(1)>>,
     local_cmvn |-> FALSE]

NoConfig ==
    [none |-> TRUE, keys |-> {}, global_mean |-> <<F(0)>>,
     global_variance |-> <<F(1)>>, local_cmvn |-> FALSE]

\* hparams.parse(config, strict): the given keys override the defaults; under
\* strict parsing a key that was never added raises
HParams_parse(hparams, config, strict) ==
    IF strict /\ ~(config.keys \subseteq KnownKeys) THEN
        [hparams EXCEPT !.err = "ValueError"]
    ELSE
        [err |-> "",
         global_mean |-> IF "global_mean" \in config.keys
                         THEN config.global_mean ELSE hparams.global_mean,
         global_variance |-> IF "global_variance" \in config.keys
                             THEN config.global_variance ELSE hparams.global_variance,
         local_cmvn |-> IF "local_cmvn" \in config.keys
                        THEN config.local_cmvn ELSE hparams.local_cmvn]

\* ------------------------------------------------------------------ CMVN
\* CMVN.params without its length assertion
CMVN_params_unchecked(config) ==
    LET parsed == IF config.none THEN DefaultHParams
                  ELSE HParams_parse(DefaultHParams, config, TRUE)
    IN  IF parsed.err # "" THEN parsed
        ELSE [parsed EXCEPT !.global_variance =
                [i \in 1..Len(@) |-> FAdd(FSqrt(@[i]), Eps)]]

\* CMVN.params storing the square root without the 1e-6
CMVN_params_no_floor(config) ==
    LET parsed == IF config.none THEN DefaultHParams
                  ELSE HParams_parse(DefaultHParams, config, TRUE)
    IN  IF parsed.err # "" THEN parsed
        ELSE IF Len(parsed.global_mean) # Len(parsed.global_variance)
        THEN [parsed EXCEPT !.err = "AssertionError"]
        ELSE [parsed EXCEPT !.global_variance = [i \in 1..Len(@) |-> FSqrt(@[i])]]

\* CMVN.params(config): the parameter record, or the exception raised
CMVN_params(config) ==
    LET parsed == IF config.none THEN DefaultHParams
                  ELSE HParams_parse(DefaultHParams, config, TRUE)
    IN  IF parsed.err # "" THEN parsed
        ELSE IF Len(parsed.global_mean) # Len(parsed.global_variance)
        THEN [parsed EXCEPT !.err = "AssertionError"]
        ELSE [parsed EXCEPT !.global_variance =
                [i \in 1..Len(@) |-> FAdd(FSqrt(@[i]), Eps)]]

\* CMVN.__init__ testing len(config.global_mean) >= 1
CMVN_init_any_length(config) ==
    [built |-> TRUE, config |-> config,
     global_cmvn |-> IF Len(config.global_mean) >= 1 THEN TRUE ELSE FALSE]

\* CMVN.__init__(config): the fields of the new object
CMVN_init(config) ==
    [built |-> TRUE, config |-> config,
     global_cmvn |-> IF Len(config.global_mean) > 1 THEN TRUE ELSE FALSE]

\* CMVN.call with the two steps in the other order
CMVN_call_local_first(self, audio_feature) ==
    LET params == self.config
        a1 == IF params.local_cmvn THEN LocalStep(audio_feature) ELSE audio_feature
    IN  IF self.global_cmvn
        THEN GlobalStep(a1, params.global_mean, params.global_variance)
        ELSE Ok(a1)

\* CMVN.call(audio_feature): the returned tensor, or the exception raised
CMVN_call(self, audio_feature) ==
    LET params == self.config
        a1 == IF self.global_cmvn
              THEN GlobalStep(audio_feature, params.global_mean, params.global_variance)
              ELSE Ok(audio_feature)
    IN  IF a1.err # "" THEN a1
        ELSE IF params.local_cmvn THEN Ok(LocalStep(a1.val))
        ELSE a1

\* the attributes the class statement of CMVN binds: dim is defined inside
\* the body of call, after its return statement, and is never bound
CMVN_attributes == {"__init__", "params", "call"}

\* obj.dim(): the number returned, or the exception raised
CMVN_dim(self) ==
    IF "dim" \in CMVN_attributes
    THEN [err |-> "", val |-> Len(self.config.global_mean)]
    ELSE [err |-> "AttributeError", val |-> 0]

\* an optional argument: None, or a list
NoneArg == [given |-> FALSE, val |-> <<>>]

Given(v) == [given |-> TRUE, val |-> v]

\* compute_cmvn asserting on variance whether or not mean is given
compute_cmvn_assert_first(audio_feature, mean, variance, local_cmvn) ==
    LET a1 == IF ~variance.given THEN Raise("AssertionError")
              ELSE IF mean.given
              THEN GlobalStep(audio_feature, mean.val, variance.val)
              ELSE Ok(audio_feature)
    IN  IF a1.err # "" THEN a1
        ELSE IF local_cmvn THEN Ok(LocalStep(a1.val))
        ELSE a1

\* compute_cmvn(audio_feature, mean, variance, local_cmvn)
compute_cmvn(audio_feature, mean, variance, local_cmvn) ==
    LET a1 == IF mean.given
              THEN IF ~variance.given THEN Raise("AssertionError")
                   ELSE GlobalStep(audio_feature, mean.val, variance.val)
              ELSE Ok(audio_feature)
    IN  IF a1.err # "" THEN a1
        ELSE IF local_cmvn THEN Ok(LocalStep(a1.val))
        ELSE a1


\* ---------------------------------------------------------------- inputs
\* feature values: 0, 1 and 7/4
Vals == {F(0), F(1), <<7, -2>>}

NextVal(v) == IF v = F(0) THEN F(1) ELSE IF v = F(1) THEN <<7, -2>> ELSE F(0)

\* the frames a feature starts with: a value in the first dimension, 1 in
\* the others
FirstFrames(D) == { [d \in 1..D |-> IF d = 1 THEN a ELSE F(1)] : a \in Vals }

\* features of T frames and D dimensions: a first frame followed by T - 1
\* equal frames, which either repeat the first frame or differ from it in
\* every dimension
Features ==
    UNION {
        UNION {
            UNION {
                { [t \in 1..T |-> b],
                  [t \in 1..T |-> IF t = 1 THEN b ELSE [d \in 1..D |-> NextVal(b[d])]] }
                : b \in FirstFrames(D) }
            : D \in 1..MaxDim }
        : T \in 1..MaxFrames }

MeanSeqs ==
    UNION { { [i \in 1..L |-> IF i = 1 THEN a ELSE F(0)] : a \in {F(0), F(1)} }
            : L \in 1..MaxDim }

VarSeqs ==
    UNION { { [i \in 1..L |-> IF i = 1 THEN a ELSE F(4)] : a \in {F(0), F(1), F(4)} }
            : L \in 1..MaxDim }

\* scale factors handed to compute_cmvn: never zero
ScaleSeqs ==
    UNION { { [i \in 1..L |-> IF i = 1 THEN a ELSE F(1)] : a \in {F(1), F(2)} }
            : L \in 1..MaxDim }

Configs ==
    {NoConfig} \cup
    { [none |-> FALSE,
       keys |-> (IF hm THEN {"global_mean"} ELSE {}) \cup
                (IF hv THEN {"global_variance"} ELSE {}) \cup
                (IF hl THEN {"local_cmvn"} ELSE {}),
       global_mean |-> IF hm THEN m ELSE NoConfig.global_mean,
       global_variance |-> IF hv THEN v ELSE NoConfig.global_variance,
       local_cmvn |-> IF hl THEN l ELSE NoConfig.local_cmvn]
      : hm \in BOOLEAN, hv \in BOOLEAN, hl \in BOOLEAN,
        m \in MeanSeqs, v \in VarSeqs, l \in {TRUE} } \cup
    { [NoConfig EXCEPT !.none = FALSE, !.keys = {"sample_rate"}] }

\* ----------------------------------------------------------------- state
VARIABLES
    config,     \* the argument of the latest CMVN.params call
    hparams,    \* what that call returned or raised
    obj,        \* the CMVN object: built, config, global_cmvn
    last,       \* the latest operation, its arguments and its outcome
    pc,         \* train: the statement about to run
    p,          \* train: the parsed configuration
    epoch,      \* train: the loop variable
    loss,       \* train: the value solver.evaluate returned last
    log         \* train: the calls made on the collaborators, in order

cmvnVars == <<config, hparams, obj, last>>

trainVars == <<pc, p, epoch, loss, log>>

vars == <<config, hparams, obj, last, pc, p, epoch, loss, log>>

Unset == [DefaultHParams EXCEPT !.err = "unset"]

NoObject == [built |-> FALSE, config |-> Unset, global_cmvn |-> FALSE]

NoOp ==
    [op |-> "none", feature |-> <<>>, mean |-> NoneArg, variance |-> NoneArg,
     local_cmvn |-> FALSE, err |-> "", out |-> <<>>, n |-> 0]

Idle == [num_epochs |-> 0, sorta_epoch |-> 0, pretrained_model |-> FALSE,
         dev_csv |-> TRUE]

Init ==
    /\ config = NoConfig
    /\ hparams = Unset
    /\ obj = NoObject
    /\ last = NoOp
    /\ pc = "idle"
    /\ p = Idle
    /\ epoch = 0
    /\ loss = 0
    /\ log = <<>>

\* hparams = CMVN.params(c), the first thing a run does with the frontend
Params(c) ==
    /\ last.op = "none"
    /\ config' = c
    /\ hparams' = CMVN_params(c)
    /\ last' = [NoOp EXCEPT !.op = "params", !.err = hparams'.err]
    /\ UNCHANGED <<obj, trainVars>>

\* obj = CMVN(hparams), with the record params returned
Construct ==
    /\ hparams.err = ""
    /\ obj' = CMVN_init(hparams)
    /\ last' = [NoOp EXCEPT !.op = "__init__"]
    /\ UNCHANGED <<config, hparams, trainVars>>

\* a call that stores the scale it divides by back into its config
CMVN_call_self_rescaling(self, audio_feature) ==
    [self EXCEPT !.config.global_variance =
        [i \in 1..Len(@) |-> FAdd(FSqrt(@[i]), Eps)]]

\* what call leaves in the object: it assigns to no attribute of self
CMVN_call_self(self, audio_feature) == self

\* the features a call is made on: any feature; right after a call, the
\* same feature again or the tensor that call returned (call applied twice)
CallInputs ==
    IF last.op # "call" THEN Features
    ELSE {last.feature} \cup
         (IF last.err = "" /\ last.feature \in Features THEN {last.out} ELSE {})

\* out = obj.call(f)
Call(f) ==
    /\ obj.built
    /\ LET r == CMVN_call(obj, f)
       IN  last' = [NoOp EXCEPT !.op = "call", !.feature = f,
                                !.err = r.err, !.out = r.val]
    /\ obj' = CMVN_call_self(obj, f)
    /\ UNCHANGED <<config, hparams, trainVars>>

\* n = obj.dim()
Dim ==
    /\ obj.built
    /\ LET r == CMVN_dim(obj)
       IN  last' = [NoOp EXCEPT !.op = "dim", !.err = r.err, !.n = r.val]
    /\ UNCHANGED <<config, hparams, obj, trainVars>>

\* out = compute_cmvn(f, m, v, b): the function is stateless and is used
\* where no frontend object is constructed, once in a run
ComputeCmvn(f, m, v, b) ==
    /\ last.op = "none"
    /\ LET r == compute_cmvn(f, m, v, b)
       IN  last' = [NoOp EXCEPT !.op = "compute_cmvn", !.feature = f, !.mean = m,
                                !.variance = v, !.local_cmvn = b,
                                !.err = r.err, !.out = r.val]
    /\ UNCHANGED <<config, hparams, obj, trainVars>>

Next ==
    \/ \E c \in Configs : Params(c)
    \/ Construct
    \/ \E f \in CallInputs : Call(f)
    \/ Dim
    \/ \E f \in Features, m \in {NoneArg} \cup {Given(x) : x \in MeanSeqs},
          v \in {NoneArg} \cup {Given(x) : x \in ScaleSeqs}, b \in BOOLEAN :
            ComputeCmvn(f, m, v, b)

Spec == Init /\ [][Next]_vars


\* ------------------------------------------------------------ main.train
\* The collaborators (dataset builder, solver, checkpointer) are opaque: a
\* call on one of them is recorded in log, and solver.evaluate returns some
\* loss.  Apart from the ValueError of load_model_from_jsonfile no call
\* raises.
Losses == {1, 2}

Event(call, e, l) == [call |-> call, epoch |-> e, loss |-> l]

TrainConfigs ==
    [num_epochs : 0..MaxEpochs, sorta_epoch : 0..MaxEpochs,
     pretrained_model : BOOLEAN, dev_csv : BOOLEAN]

TrainInit ==
    /\ config = NoConfig
    /\ hparams = Unset
    /\ obj = NoObject
    /\ last = NoOp
    /\ pc = "load_model"
    /\ p \in TrainConfigs
    /\ epoch = 0
    /\ loss = 0
    /\ log = <<>>

\* load_model_from_jsonfile(jsonfile, rank) with pre_run: needs a dev_csv and
\* runs one evaluate_step on it
LoadModel ==
    /\ pc = "load_model"
    /\ IF ~p.dev_csv
       THEN pc' = "raised" /\ log' = log
       ELSE /\ pc' = "pretrained"
            /\ log' = Append(log, Event("evaluate_step", 0, 0))
    /\ UNCHANGED <<p, epoch, loss, cmvnVars>>

\* if p.pretrained_model is not None: load it the same way and restore from
\* it (the pretrained model's json is taken to name a dev_csv)
Pretrained ==
    /\ pc = "pretrained"
    /\ pc' = "compute_cmvn"
    /\ log' = IF p.pretrained_model
              THEN log \o <<Event("evaluate_step", 0, 0),
                            Event("restore_from_pretrained_model", 0, 0)>>
              ELSE log
    /\ UNCHANGED <<p, epoch, loss, cmvnVars>>

\* dataset_builder.load_csv(p.train_csv).compute_cmvn_if_necessary(rank == 0),
\* then the solver is built and the loop starts at epoch 0
ComputeCmvnIfNecessary ==
    /\ pc = "compute_cmvn"
    /\ pc' = "for"
    /\ epoch' = 0
    /\ log' = Append(log, Event("compute_cmvn_if_necessary", 0, 0))
    /\ UNCHANGED <<p, loss, cmvnVars>>

\* for epoch in range(p.num_epochs)
RangeHasNext(e, num_epochs) == e < num_epochs

For ==
    /\ pc = "for"
    /\ pc' = IF RangeHasNext(epoch, p.num_epochs) THEN "shard" ELSE "returned"
    /\ UNCHANGED <<p, epoch, loss, log, cmvnVars>>

\* dataset_builder.load_csv(p.train_csv).shard(rank_size, rank)
Shard ==
    /\ pc = "shard"
    /\ pc' = "shuffle"
    /\ log' = Append(log, Event("shard", epoch, 0))
    /\ UNCHANGED <<p, epoch, loss, cmvnVars>>

\* the shuffle test written with > instead of >=
ShuffleDue_strict(e, sorta_epoch) == e > sorta_epoch

\* if epoch >= p.sorta_epoch
ShuffleDue(e, sorta_epoch) == e >= sorta_epoch

Shuffle ==
    /\ pc = "shuffle"
    /\ pc' = "train"
    /\ log' = IF ShuffleDue(epoch, p.sorta_epoch)
              THEN Append(log, Event("batch_wise_shuffle", epoch, 0))
              ELSE log
    /\ UNCHANGED <<p, epoch, loss, cmvnVars>>

\* solver.train(dataset_builder.as_dataset(p.batch_size))
Train ==
    /\ pc = "train"
    /\ pc' = "evaluate"
    /\ log' = Append(log, Event("train", epoch, 0))
    /\ UNCHANGED <<p, epoch, loss, cmvnVars>>

\* loss = solver.evaluate(dev dataset, epoch)
Evaluate ==
    /\ pc = "evaluate"
    /\ pc' = "checkpointer"
    /\ \E l \in Losses :
        /\ loss' = l
        /\ log' = Append(log, Event("evaluate", epoch, l))
    /\ UNCHANGED <<p, epoch, cmvnVars>>

\* what checkpointer is called with
CheckpointArg(l, e) == l

\* checkpointer(loss), the last statement of the loop body
Checkpointer ==
    /\ pc = "checkpointer"
    /\ pc' = "for"
    /\ epoch' = epoch + 1
    /\ log' = Append(log, Event("checkpointer", epoch, CheckpointArg(loss, epoch)))
    /\ UNCHANGED <<p, loss, cmvnVars>>

TrainNext ==
    \/ LoadModel
    \/ Pretrained
    \/ ComputeCmvnIfNecessary
    \/ For
    \/ Shard
    \/ Shuffle
    \/ Train
    \/ Evaluate
    \/ Checkpointer

TrainSpec == TrainInit /\ [][TrainNext]_vars


\* ================================================================ claims
\* the outcome of the latest call or compute_cmvn
LastResult == [err |-> last.err, val |-> last.out]

Mean == obj.config.global_mean

StoredVariance == obj.config.global_variance

\* C1: CMVN.params raises for every config whose global_mean and
\* global_variance (given or default) differ in length, and every record it
\* returns has len(global_mean) = len(global_variance).
C1_LengthMismatchFails ==
    hparams.err # "unset" =>
        /\ Len(config.global_mean) # Len(config.global_variance) => hparams.err # ""
        /\ hparams.err = "" => Len(hparams.global_mean) = Len(hparams.global_variance)

\* C1 witness: only global_mean is overridden, with two elements, against the
\* one-element default variance, and params raised.
C1_Witness ==
    /\ config.keys = {"global_mean"}
    /\ Len(config.global_mean) = 2
    /\ Len(config.global_variance) = 1
    /\ hparams.err = "AssertionError"

\* C2: the returned global_variance has the length and order of the input
\* variance, element i being sqrt(v[i]) + 1e-6 (applied once, to the default
\* too), and global_mean is returned as given.
C2_VarianceIsSqrtPlusEps ==
    hparams.err = "" =>
        /\ Len(hparams.global_variance) = Len(config.global_variance)
        /\ \A i \in 1..Len(config.global_variance) :
              hparams.global_variance[i] = FAdd(FSqrt(config.global_variance[i]), Eps)
        /\ hparams.global_mean = config.global_mean

\* C2 witness: the variance [0, 4] came back as [1e-6, sqrt(4) + 1e-6].
C2_Witness ==
    /\ hparams.err = ""
    /\ config.global_variance = <<F(0), F(4)>>
    /\ hparams.global_variance = <<Eps, FAdd(F(2), Eps)>>
    /\ hparams.global_mean = <<F(1), F(0)>>

\* C3: with global_cmvn true, call raises for every feature whose last
\* dimension differs from len(global_mean); it never broadcasts.
C3_ShapeMismatchFails ==
    (/\ last.op = "call"
     /\ obj.global_cmvn
     /\ Cols(last.feature) # Len(Mean)) => last.err # ""

\* C4: dim() is a callable method of a constructed object and returns
\* len(config.global_mean).
C4_DimReturnsLength ==
    last.op = "dim" => last.err = "" /\ last.n = Len(Mean)

\* C5: compute_cmvn with a mean and no variance raises before anything is
\* normalized, with local_cmvn true or false; without a mean it never raises
\* and variance is ignored.
C5_MeanNeedsVariance ==
    last.op = "compute_cmvn" =>
        /\ (last.mean.given /\ ~last.variance.given) =>
              last.err = "AssertionError" /\ last.out = <<>>
        /\ ~last.mean.given =>
              /\ last.err = ""
              /\ last.out = IF last.local_cmvn THEN LocalStep(last.feature)
                            ELSE last.feature

\* C5 witness: a mean without a variance, local_cmvn true, raised.
C5_Witness ==
    /\ last.op = "compute_cmvn"
    /\ last.mean.given
    /\ ~last.variance.given
    /\ last.local_cmvn
    /\ last.err = "AssertionError"

FramesIdentical(X) == \A t \in 1..Rows(X) : X[t] = X[1]

\* the local step ran in the latest operation
LocalStepRan ==
    /\ last.err = ""
    /\ \/ last.op = "call" /\ obj.config.local_cmvn
       \/ last.op = "compute_cmvn" /\ last.local_cmvn

\* the statistics of the global step, if it ran, have the feature's dimension
GlobalStepFits ==
    /\ last.op = "call" /\ obj.global_cmvn => Len(Mean) = Cols(last.feature)
    /\ last.op = "compute_cmvn" /\ last.mean.given =>
          /\ Len(last.mean.val) = Cols(last.feature)
          /\ Len(last.variance.val) = Cols(last.feature)

\* C7: with local_cmvn true, a feature whose frames are all identical comes
\* back from call and from compute_cmvn with its shape and every element 0.
C7_IdenticalFramesGiveZero ==
    (LocalStepRan /\ GlobalStepFits /\ FramesIdentical(last.feature)) =>
        /\ Rows(last.out) = Rows(last.feature)
        /\ \A t \in 1..Rows(last.out) :
              /\ Len(last.out[t]) = Cols(last.feature)
              /\ \A d \in 1..Len(last.out[t]) : last.out[t][d] = <<0, 0>>

\* C8: global_cmvn is true exactly when len(global_mean) > 1; with
\* local_cmvn false, call returns its input unchanged for a one-element
\* global_mean and the globally normalized input otherwise.
C8_GlobalFlagIsLengthAboveOne ==
    obj.built =>
        /\ obj.global_cmvn <=> Len(Mean) > 1
        /\ (last.op = "call" /\ ~obj.config.local_cmvn) =>
              IF Len(Mean) = 1
              THEN last.err = "" /\ last.out = last.feature
              ELSE LastResult = GlobalStep(last.feature, Mean, StoredVariance)

\* C8 witness: a one-element global_mean of 1 and a call that returned its
\* non-zero input as it was.
C8_Witness ==
    /\ last.op = "call"
    /\ Mean = <<F(1)>>
    /\ ~obj.config.local_cmvn
    /\ last.feature = <<<<F(1)>>, <<F(1)>>>>
    /\ last.out = last.feature

\* C9 as claimed: the result of call equals
\* compute_cmvn(feature, global_mean, stored global_variance, local_cmvn).
C9_CallEqualsComputeCmvn ==
    last.op = "call" =>
        LastResult = compute_cmvn(last.feature, Given(Mean), Given(StoredVariance),
                                  obj.config.local_cmvn)

\* C9 amended: call applies the global step first and the local step to its
\* result (to the raw input when global_cmvn is false); its result equals
\* compute_cmvn(feature, global_mean, stored global_variance, local_cmvn) when
\* global_cmvn is true and compute_cmvn(feature, None, None, local_cmvn) when
\* it is false.
C9_CallEqualsComputeCmvnWhenGlobal ==
    last.op = "call" =>
        /\ obj.global_cmvn =>
              LastResult = compute_cmvn(last.feature, Given(Mean), Given(StoredVariance),
                                        obj.config.local_cmvn)
        /\ ~obj.global_cmvn =>
              LastResult = compute_cmvn(last.feature, NoneArg, NoneArg,
                                        obj.config.local_cmvn)
        /\ (obj.config.local_cmvn /\ last.err = "") =>
              last.out = LocalStep(IF obj.global_cmvn
                                   THEN GlobalStep(last.feature, Mean, StoredVariance).val
                                   ELSE last.feature)

\* C9 witness: both steps ran, and the local statistics of the globally
\* normalized tensor gave another result than those of the raw input would.
C9_Witness ==
    /\ last.op = "call"
    /\ obj.global_cmvn
    /\ obj.config.local_cmvn
    /\ last.err = ""
    /\ Cols(last.feature) = Len(Mean)
    /\ last.out # LocalStep(last.feature)
    /\ last.out # GlobalStep(LocalStep(last.feature), Mean, StoredVariance).val

\* the calls of one epoch, in order
EpochCalls(e) ==
    <<"shard">> \o (IF e >= p.sorta_epoch THEN <<"batch_wise_shuffle">> ELSE <<>>)
    \o <<"train", "evaluate", "checkpointer">>

RECURSIVE LoopCalls(_)
\* the <<call, epoch>> pairs of the epochs 0 .. n - 1, in order
LoopCalls(n) ==
    IF n = 0 THEN <<>>
    ELSE LoopCalls(n - 1) \o [i \in 1..Len(EpochCalls(n - 1)) |->
                                 <<EpochCalls(n - 1)[i], n - 1>>]

\* the calls of a whole run of train
RunCalls ==
    <<<<"evaluate_step", 0>>>>
    \o (IF p.pretrained_model
        THEN <<<<"evaluate_step", 0>>, <<"restore_from_pretrained_model", 0>>>>
        ELSE <<>>)
    \o <<<<"compute_cmvn_if_necessary", 0>>>>
    \o LoopCalls(p.num_epochs)

Count(call) == Cardinality({i \in 1..Len(log) : log[i].call = call})

\* C10: compute_cmvn_if_necessary runs once, before the loop; each epoch
\* 0 .. N - 1 in turn does shard, batch_wise_shuffle (exactly when epoch >=
\* sorta_epoch), train, evaluate(epoch), checkpointer(that loss); a run that
\* returns has done train, evaluate and checkpointer N times each.
C10_EpochOrder ==
    /\ Len(log) <= Len(RunCalls)
    /\ \A i \in 1..Len(log) : <<log[i].call, log[i].epoch>> = RunCalls[i]
    /\ \A i \in 1..Len(log) :
          log[i].call = "checkpointer" =>
              log[i - 1].call = "evaluate" /\ log[i].loss = log[i - 1].loss
    /\ pc = "returned" =>
          /\ Len(log) = Len(RunCalls)
          /\ Count("train") = p.num_epochs
          /\ Count("evaluate") = p.num_epochs
          /\ Count("checkpointer") = p.num_epochs
          /\ Count("compute_cmvn_if_necessary") = 1

\* C10 witness: a returned run of three epochs that shuffled from epoch 1
\* on and whose evaluations returned different losses.
C10_Witness ==
    /\ pc = "returned"
    /\ p.num_epochs = 3
    /\ p.sorta_epoch = 1
    /\ Count("batch_wise_shuffle") = 2
    /\ \E i, j \in 1..Len(log) :
          /\ log[i].call = "checkpointer" /\ log[j].call = "checkpointer"
          /\ log[i].loss # log[j].loss

====
